---- MODULE Spec2Model ----
(***************************************************************************)
(* Model of the geotargets build: the quoted-CSV line tokenizer            *)
(* (Google.parseLine), the canonical-name decomposition                    *)
(* (Google.parseCanonical), the batch parser (Google.getLocationEntities)  *)
(* and the build run of App (getVersion, downloadFile, parseFile,          *)
(* writeFiles).                                                            *)
(*                                                                         *)
(* A JavaScript string is a sequence of one-character strings.  Positions  *)
(* are 0-based as in the source; s[i+1] is the source's s[i].              *)
(***************************************************************************)
EXTENDS Integers, Sequences, FiniteSets, TLC

VARIABLES
    tokFields,   \* tokenizer harness: the fields a line is built from (<<>> if the line is raw)
    tokLine,     \* tokenizer harness: the line handed to parseLine
    tokValues,   \* tokenizer harness: what parseLine returned
    tokPc,       \* tokenizer harness: "idle" | "fields" | "line" | "parsed"
    canName,     \* decomposer harness: parseCanonical's name argument
    canCanonical,\* decomposer harness: parseCanonical's canonical argument
    canResult,   \* decomposer harness: what parseCanonical returned
    canPc,       \* decomposer harness: "idle" | "args" | "returned"
    pc,          \* App: the point the run has reached
    text,        \* the text of the .csv entry of the archive the remote serves
    files,       \* the file system: path |-> content, for the paths that exist
    dirs,        \* the directories that exist
    outputs,     \* the core.setOutput calls made, in order
    version,     \* getVersion's version
    lines,       \* getLocationEntities' lines
    index,       \* how many lines the map callback has been called on
    mapped,      \* the callback's results so far
    entities,    \* parseFile's entities (writeFiles deletes their type)
    error,       \* the message of the error boot caught ("" if none)
    errLine,     \* the line number that message names (0 if none)
    bucket,      \* writeFiles: the 1-based position in saveFiles of the loop
    targets,     \* writeFiles: the loop's targets
    counts,      \* writeFiles: the counts map, as its entries in insertion order
    written      \* the paths written by this run, in order

tokVars == <<tokFields, tokLine, tokValues, tokPc>>
canVars == <<canName, canCanonical, canResult, canPc>>
appVars == <<pc, text, files, dirs, outputs, version, lines, index, mapped, entities,
             error, errLine, bucket, targets, counts, written>>

(***************************************************************************)
(* Bounds of the model.                                                    *)
(***************************************************************************)
MaxFields == 2      \* fields per generated line (tokenizer round trip)
MaxFieldLen == 2    \* characters per generated field
MaxRawLen == 4      \* characters of a raw line handed to parseLine
MaxNameLen == 1     \* characters of parseCanonical's name
MaxCanonLen == 7    \* characters of parseCanonical's canonical
MaxLines == 3       \* lines after the header in the served text

(***************************************************************************)
(* Strings.                                                                *)
(***************************************************************************)
QUOTE == "\""
COMMA == ","
SPACE == " "

\* All strings over alphabet cs of length at most n.
StringsUpTo(cs, n) == UNION {[1..k -> cs] : k \in 0..n}

\* s.length
length(s) == Len(s)

\* s.substring(start) for 0 <= start
substring(s, start) == SubSeq(s, start + 1, Len(s))

\* s.substring(start, end) for 0 <= start <= end
substring2(s, start, end) == SubSeq(s, start + 1, end)

\* s.substr(start, len): a negative or zero length gives the empty string
substr2(s, start, len) ==
    IF len <= 0 THEN <<>> ELSE SubSeq(s, start + 1, start + len)

\* s.substr(start)
substr(s, start) == SubSeq(s, start + 1, Len(s))

\* s.indexOf(c): the first 0-based position of character c, or -1
indexOf(s, c) ==
    IF \E k \in 1..Len(s) : s[k] = c
    THEN (CHOOSE k \in 1..Len(s) : s[k] = c /\ \A j \in 1..(k - 1) : s[j] # c) - 1
    ELSE -1

\* s.lastIndexOf(c): the last 0-based position of character c, or -1
lastIndexOf(s, c) ==
    IF \E k \in 1..Len(s) : s[k] = c
    THEN (CHOOSE k \in 1..Len(s) : s[k] = c /\ \A j \in (k + 1)..Len(s) : s[j] # c) - 1
    ELSE -1

\* s.startsWith(p)
startsWith(s, p) == Len(p) <= Len(s) /\ SubSeq(s, 1, Len(p)) = p

\* (s.match(/,/g) || []).length
commaCountOf(s) == Cardinality({k \in 1..Len(s) : s[k] = COMMA})

(***************************************************************************)
(* Google.parseLine.                                                       *)
(*                                                                         *)
(* currentValue and the entries of values are kept as the positions of     *)
(* `line` whose characters they hold (currentValue += char is only ever    *)
(* done with char = line[i]); parseLine reads the characters off at the    *)
(* end.                                                                    *)
(***************************************************************************)
\* char === '"' && (nextChar === undefined || nextChar === ',')
closesQuoteAny(line, i) == line[i + 1] = QUOTE

closesQuote(line, i) ==
    /\ line[i + 1] = QUOTE
    /\ (i + 1 >= Len(line) \/ line[i + 2] = COMMA)

\* the body of the for loop at position i, from loop state st
readChar(line, i, st) ==
    LET char == line[i + 1] IN
    IF st.inQuotes
    THEN IF closesQuote(line, i)
         THEN [values |-> Append(st.values, st.currentValue),
               currentValue |-> <<>>,
               inQuotes |-> FALSE]
         ELSE [st EXCEPT !.currentValue = Append(@, i)]
    ELSE IF char = COMMA THEN st
         ELSE IF char = SPACE THEN st
         ELSE IF char = QUOTE THEN [st EXCEPT !.inQuotes = TRUE]
         ELSE [st EXCEPT !.currentValue = Append(@, i)]

\* the loop state after positions 0 .. n-1 have been read
RECURSIVE loopState(_, _)
loopState(line, n) ==
    IF n = 0
    THEN [values |-> <<>>, currentValue |-> <<>>, inQuotes |-> FALSE]
    ELSE readChar(line, n - 1, loopState(line, n - 1))

\* the values array at return, as positions of line
parseLinePositions(line) ==
    LET st == loopState(line, Len(line)) IN
    IF Len(st.currentValue) > 0 THEN Append(st.values, st.currentValue) ELSE st.values

\* the values array at return
parseLine(line) ==
    LET ps == parseLinePositions(line) IN
    [k \in 1..Len(ps) |-> [j \in 1..Len(ps[k]) |-> line[ps[k][j] + 1]]]

(***************************************************************************)
(* Each specification below runs one part of the program; the variables of *)
(* the other parts stay at these values.                                   *)
(***************************************************************************)
TokIdle == tokFields = <<>> /\ tokLine = <<>> /\ tokValues = <<>> /\ tokPc = "idle"

CanIdle ==
    canName = <<>> /\ canCanonical = <<>> /\ canResult = <<>> /\ canPc = "idle"

AppIdle ==
    /\ pc = "idle" /\ text = <<>> /\ files = <<>> /\ dirs = {} /\ outputs = <<>>
    /\ version = <<>> /\ lines = <<>> /\ index = 0 /\ mapped = <<>> /\ entities = <<>>
    /\ error = "" /\ errLine = 0 /\ bucket = 0 /\ targets = <<>> /\ counts = <<>>
    /\ written = <<>>

(***************************************************************************)
(* Tokenizer harness: parseLine applied to raw lines and to lines built by *)
(* quoting fields.                                                         *)
(***************************************************************************)
TokChars == {"a", COMMA, SPACE, QUOTE}

\* a field holds no double quote immediately followed by a comma
Quotable(f) == \A k \in 1..(Len(f) - 1) : ~(f[k] = QUOTE /\ f[k + 1] = COMMA)

TokFieldSet == {f \in StringsUpTo(TokChars, MaxFieldLen) : Quotable(f)}

\* "f1","f2",...,"fn"
RECURSIVE quoteJoin(_)
quoteJoin(fields) ==
    IF Len(fields) = 0 THEN <<>>
    ELSE IF Len(fields) = 1 THEN <<QUOTE>> \o fields[1] \o <<QUOTE>>
    ELSE <<QUOTE>> \o fields[1] \o <<QUOTE, COMMA>> \o quoteJoin(Tail(fields))

TokInit ==
    /\ \/ /\ tokFields \in UNION {[1..n -> TokFieldSet] : n \in 1..MaxFields}
          /\ tokLine = <<>>
          /\ tokPc = "fields"
       \/ /\ tokFields = <<>>
          /\ tokLine \in StringsUpTo(TokChars, MaxRawLen)
          /\ tokPc = "line"
    /\ tokValues = <<>>
    /\ CanIdle
    /\ AppIdle

TokBuild ==
    /\ tokPc = "fields"
    /\ tokLine' = quoteJoin(tokFields)
    /\ tokPc' = "line"
    /\ UNCHANGED <<tokFields, tokValues, canVars, appVars>>

TokParse ==
    /\ tokPc = "line"
    /\ tokValues' = parseLine(tokLine)
    /\ tokPc' = "parsed"
    /\ UNCHANGED <<tokFields, tokLine, canVars, appVars>>

TokNext == TokBuild \/ TokParse

(***************************************************************************)
(* Google.parseCanonical.                                                  *)
(*                                                                         *)
(* A JavaScript object is a record holding exactly the keys the object     *)
(* literal gives a value; `undefined` is a record of its own.              *)
(***************************************************************************)
undefined == [jsUndefined |-> TRUE]

\* canonical.startsWith(`${name},`)
hasNamePrefix(name, canonical) == startsWith(canonical, name \o <<COMMA>>)

\* commaCount === 2
recoverableAtLeastTwo(canonical) == commaCountOf(canonical) >= 2

recoverable(canonical) == commaCountOf(canonical) = 2

\* stateName.lastIndexOf(',')
commaOfFirst(stateName) == indexOf(stateName, COMMA)

commaOf(stateName) == lastIndexOf(stateName, COMMA)

\* the statements after the prefix check: stateName, comma, region, country
canonicalTail(name, canonical) ==
    LET stateName == substring(canonical, length(name) + 1)
        comma == commaOf(stateName)
        region == substr2(stateName, 0, comma)
        country == substr(stateName, comma + 1)
    IN  [region |-> region, country |-> country]

parseCanonical(name, canonical) ==
    IF name = canonical
    THEN [country |-> name]
    ELSE IF ~hasNamePrefix(name, canonical)
         THEN IF recoverable(canonical)
              THEN canonicalTail(substring2(canonical, 0, indexOf(canonical, COMMA)),
                                 canonical)
              ELSE undefined
         ELSE canonicalTail(name, canonical)

(***************************************************************************)
(* Library functions Google.getLocationEntities uses.                      *)
(***************************************************************************)
LF == "\n"
CR == "\r"
TAB == "\t"
WhiteSpace == {SPACE, TAB, LF, CR}

\* s.trim()
RECURSIVE trimStart(_)
trimStart(s) ==
    IF Len(s) > 0 /\ s[1] \in WhiteSpace THEN trimStart(Tail(s)) ELSE s

RECURSIVE trimEnd(_)
trimEnd(s) ==
    IF Len(s) > 0 /\ s[Len(s)] \in WhiteSpace
    THEN trimEnd(SubSeq(s, 1, Len(s) - 1))
    ELSE s

trim(s) == trimEnd(trimStart(s))

\* the length of the match of /(?:\r?\n)+/ at 1-based position p of s (0: no match)
RECURSIVE terminatorRun(_, _)
terminatorRun(s, p) ==
    IF p <= Len(s) /\ s[p] = LF
    THEN 1 + terminatorRun(s, p + 1)
    ELSE IF p + 1 <= Len(s) /\ s[p] = CR /\ s[p + 1] = LF
         THEN 2 + terminatorRun(s, p + 2)
         ELSE 0

\* s.split(/(?:\r?\n)+/) continued from position p with the piece begun at `from`
RECURSIVE splitFrom(_, _, _)
splitFrom(s, from, p) ==
    IF p > Len(s)
    THEN <<SubSeq(s, from, Len(s))>>
    ELSE LET n == terminatorRun(s, p) IN
         IF n > 0
         THEN <<SubSeq(s, from, p - 1)>> \o splitFrom(s, p + n, p + n)
         ELSE splitFrom(s, from, p + 1)

\* content.split(/(?:\r?\n)+/)
split(s) == splitFrom(s, 1, 1)

\* s.toLowerCase(), on the ASCII letters
UpperCase == <<"A", "B", "C", "D", "E", "F", "G", "H", "I", "J", "K", "L", "M",
               "N", "O", "P", "Q", "R", "S", "T", "U", "V", "W", "X", "Y", "Z">>
LowerCase == <<"a", "b", "c", "d", "e", "f", "g", "h", "i", "j", "k", "l", "m",
               "n", "o", "p", "q", "r", "s", "t", "u", "v", "w", "x", "y", "z">>

toLowerCase(s) ==
    [k \in 1..Len(s) |->
        IF \E j \in 1..Len(UpperCase) : UpperCase[j] = s[k]
        THEN LowerCase[CHOOSE j \in 1..Len(UpperCase) : UpperCase[j] = s[k]]
        ELSE s[k]]

\* A JavaScript number is a record: NaN, or an integer value.
NaN == [isNaN |-> TRUE]
Number(n) == [isNaN |-> FALSE, value |-> n]

Digits == <<"0", "1", "2", "3", "4", "5", "6", "7", "8", "9">>
isDigit(c) == \E j \in 1..Len(Digits) : Digits[j] = c
digitValue(c) == (CHOOSE j \in 1..Len(Digits) : Digits[j] = c) - 1

\* the value of the longest prefix of decimal digits of s, from accumulator acc
RECURSIVE digitsValue(_, _)
digitsValue(s, acc) ==
    IF Len(s) > 0 /\ isDigit(s[1])
    THEN digitsValue(Tail(s), acc * 10 + digitValue(s[1]))
    ELSE acc

\* parseInt(s): leading white space and one sign are skipped, the longest
\* prefix of decimal digits is the value, and there being none gives NaN.
\* (An ID beginning 0x or 0X would be read as hexadecimal; no line of the
\* model holds one.)
parseInt(s) ==
    LET t == trimStart(s)
        signed == Len(t) > 0 /\ t[1] \in {"-", "+"}
        body == IF signed THEN Tail(t) ELSE t
    IN  IF Len(body) > 0 /\ isDigit(body[1])
        THEN Number(IF signed /\ t[1] = "-" THEN 0 - digitsValue(body, 0)
                    ELSE digitsValue(body, 0))
        ELSE NaN

(***************************************************************************)
(* Google.getLocationEntities.                                             *)
(***************************************************************************)
City == <<"C", "i", "t", "y">>
Country == <<"C", "o", "u", "n", "t", "r", "y">>
County == <<"C", "o", "u", "n", "t", "y">>
PostalCode == <<"P", "o", "s", "t", "a", "l", " ", "C", "o", "d", "e">>
Region == <<"R", "e", "g", "i", "o", "n">>
State == <<"S", "t", "a", "t", "e">>
Territory == <<"T", "e", "r", "r", "i", "t", "o", "r", "y">>

consideredTypes == <<City, Country, County, PostalCode, Region, State>>

\* values.length < 6
tooFewValues(values) == Len(values) < 6

\* consideredTypes.indexOf(values[5]) < 0
notConsideredNever(values) == FALSE

notConsidered(values) ==
    ~\E k \in 1..Len(consideredTypes) : consideredTypes[k] = values[6]

\* content.substring(content.indexOf('\n') + 1).trim()
removeHeader(content) == trim(substring(content, indexOf(content, LF) + 1))

\* the object literal the callback returns; a key whose value is undefined
\* (region, when the canonical has none) is not a key of the record
entityOf(values, canonical) ==
    LET id == parseInt(values[1])
        name == values[2]
        type == values[6]
        country == [name |-> canonical.country, code |-> toLowerCase(values[5])]
    IN  IF "region" \in DOMAIN canonical
        THEN [id |-> id,
              name |-> name,
              canonical |-> values[3],
              region |-> canonical.region,
              country |-> country.name,
              countryCode |-> country.code,
              type |-> type]
        ELSE [id |-> id,
              name |-> name,
              canonical |-> values[3],
              country |-> country.name,
              countryCode |-> country.code,
              type |-> type]

\* the callback of lines.map, past the check of values.length
mapValues(values) ==
    IF notConsidered(values) THEN undefined
    ELSE LET canonical == parseCanonical(values[2], values[3]) IN
         IF canonical = undefined THEN undefined
         ELSE entityOf(values, canonical)

\* entities.filter(entity => typeof entity !== 'undefined')
filterDefinedDistinct(es) ==
    LET keep(k) == es[k] # undefined /\ \A j \in 1..(k - 1) : es[j] # es[k]
        RECURSIVE from(_)
        from(k) == IF k > Len(es) THEN <<>>
                   ELSE IF keep(k) THEN <<es[k]>> \o from(k + 1) ELSE from(k + 1)
    IN  from(1)

filterDefined(es) == SelectSeq(es, LAMBDA entity : entity # undefined)

(***************************************************************************)
(* App: the build run.                                                     *)
(***************************************************************************)
\* the entries of saveFiles, in the order for..in visits them
saveFiles == <<[type |-> City, fileName |-> "cities"],
               [type |-> Country, fileName |-> "countries"],
               [type |-> County, fileName |-> "counties"],
               [type |-> PostalCode, fileName |-> "postal_codes"],
               [type |-> Region, fileName |-> "regions"],
               [type |-> State, fileName |-> "states"]>>

metadataPath == "builds/metadata.json"

\* path.resolve('builds', format, `${fileName}.${format}`), from the working directory
savePath(format, fileName) == "builds/" \o format \o "/" \o fileName \o "." \o format

\* `csv/${fileName}.csv` and `json/${fileName}.json`
formatPath(format, fileName) == format \o "/" \o fileName \o "." \o format

\* entity.type === type
hasTypeAny(entity, type) == "type" \in DOMAIN entity

hasType(entity, type) == "type" \in DOMAIN entity /\ entity.type = type

\* delete entity.type
deleteType(entity) == [k \in DOMAIN entity \ {"type"} |-> entity[k]]

\* entities.filter(entity => entity.type === type).map(entity => { delete entity.type; return entity })
targetsOf(es, type) ==
    LET matching == SelectSeq(es, LAMBDA entity : hasType(entity, type))
    IN  [k \in 1..Len(matching) |-> deleteType(matching[k])]

\* the entities array once the map above has deleted the type of its targets
afterDelete(es, type) ==
    [k \in 1..Len(es) |-> IF hasType(es[k], type) THEN deleteType(es[k]) ELSE es[k]]

\* `${n}` for a number n
RECURSIVE decimal(_)
decimal(n) == IF n < 10 THEN <<Digits[n + 1]>>
              ELSE decimal(n \div 10) \o <<Digits[(n % 10) + 1]>>

numberToString(n) ==
    IF n.isNaN THEN <<"N", "a", "N">>
    ELSE IF n.value < 0 THEN <<"-">> \o decimal(0 - n.value)
    ELSE decimal(n.value)

\* target.region||''
regionOrEmpty(target) == IF "region" \in DOMAIN target THEN target.region ELSE <<>>

\* saveData of the csv format: the header line and, per target, the six
\* values its row holds between double quotes
csvData(ts) ==
    [header |-> "Id,Name,Canonical,Region,Country,Country Code",
     rows |-> [k \in 1..Len(ts) |->
                  <<numberToString(ts[k].id), ts[k].name, ts[k].canonical,
                    regionOrEmpty(ts[k]), ts[k].country, ts[k].countryCode>>]]

\* saveData of the json format: JSON.stringify(entities, null, 4), as the
\* array of objects it serialises
jsonData(ts) == ts

\* the object written to metadata.json
metadataOf(v, cs) ==
    [date |-> v.date,
     source |-> v.uri,
     counts |-> cs,
     formats |-> [csv |-> [k \in 1..Len(cs) |-> formatPath("csv", cs[k].fileName)],
                  json |-> [k \in 1..Len(cs) |-> formatPath("json", cs[k].fileName)]]]

\* version.uri.match(/\.csv(\.zip)?/i), on the links the remote page may hold
RemoteUris == {"geotargets-2024-01-02.csv.zip", "geotargets-2024-01-02.pdf"}
uriIsCsv(uri) == uri = "geotargets-2024-01-02.csv.zip"

RemoteDate == "2024-01-02"
EarlierDate == "2023-12-01"

\* f with path p set to content c
WriteFile(f, p, c) == [q \in DOMAIN f \cup {p} |-> IF q = p THEN c ELSE f[q]]

\* the builds directory an earlier run left: a build of one city
EarlierEntities ==
    <<[id |-> Number(1), name |-> <<"K">>, canonical |-> <<"K", COMMA, "A">>,
       region |-> <<>>, country |-> <<"A">>, countryCode |-> <<"a", "f">>,
       type |-> City]>>

RECURSIVE EarlierData(_, _, _)
EarlierData(f, es, k) ==
    IF k > Len(saveFiles) THEN f
    ELSE LET ts == targetsOf(es, saveFiles[k].type) IN
         EarlierData(
             WriteFile(WriteFile(f, savePath("json", saveFiles[k].fileName), jsonData(ts)),
                       savePath("csv", saveFiles[k].fileName), csvData(ts)),
             afterDelete(es, saveFiles[k].type), k + 1)

EarlierCounts ==
    [k \in 1..Len(saveFiles) |->
        [fileName |-> saveFiles[k].fileName,
         count |-> Len(targetsOf(EarlierEntities, saveFiles[k].type))]]

EarlierBuild(date) ==
    WriteFile(EarlierData(<<>>, EarlierEntities, 1), metadataPath,
              metadataOf([date |-> date, uri |-> "geotargets-2024-01-02.csv.zip"],
                         EarlierCounts))

\* the builds directory a run left that failed after its first data file
PartialBuild ==
    WriteFile(<<>>, savePath("json", saveFiles[1].fileName), jsonData(EarlierEntities))

BuildDirs == {"builds", "builds/json", "builds/csv"}

(***************************************************************************)
(* Decomposer harness: parseCanonical applied to names and canonicals.     *)
(***************************************************************************)
CanChars == {"a", "b", COMMA}

CanInit ==
    /\ canName \in StringsUpTo(CanChars, MaxNameLen)
    /\ canCanonical \in StringsUpTo(CanChars, MaxCanonLen)
    /\ canResult = <<>>
    /\ canPc = "args"
    /\ TokIdle
    /\ AppIdle

CanParse ==
    /\ canPc = "args"
    /\ canResult' = parseCanonical(canName, canCanonical)
    /\ canPc' = "returned"
    /\ UNCHANGED <<canName, canCanonical, tokVars, appVars>>

CanNext == CanParse

(***************************************************************************)
(* The build run: App.boot, from a builds directory that is empty or is as *)
(* an earlier run left it, against a remote that serves `text`.            *)
(***************************************************************************)
rowCity == <<<<"7">>, <<"P">>, <<"P", COMMA, "T", COMMA, "U">>, <<"2">>, <<"U", "S">>,
             City, <<"A">>>>
rowState == <<<<"8">>, <<"T">>, <<"T", COMMA, "U">>, <<>>, <<"U", "S">>, State>>
rowCountry == <<<<"9">>, <<"U">>, <<"U">>, <<>>, <<"U", "S">>, Country>>
rowTerritory == <<<<"5">>, <<"G">>, <<"G", COMMA, "U">>, <<>>, <<"U", "S">>, Territory>>
rowUnrelated ==
    <<<<"6">>, <<"M">>, <<"X", COMMA, "T", COMMA, "U", COMMA, "V">>, <<>>, <<"U", "S">>, City>>
rowShort == <<<<"4">>, <<"S">>, <<"S", COMMA, "U">>, <<"U", "S">>>>
rowBadId == <<<<"x">>, <<"Q">>, <<"Q", COMMA, "T", COMMA, "U">>, <<>>, <<"U", "S">>, City>>
rowBlank == <<>>

Rows == {rowCity, rowState, rowCountry, rowTerritory, rowUnrelated, rowShort, rowBadId,
         rowBlank}

Headers == {<<"I", "d", COMMA, "N", "a", "m", "e">>}

LineEnds == {<<LF>>, <<CR, LF>>}

\* the header, then each row's line behind a line end, then a last line end or none
RECURSIVE linesAfter(_, _)
linesAfter(rows, eol) ==
    IF Len(rows) = 0 THEN <<>>
    ELSE eol \o quoteJoin(rows[1]) \o linesAfter(Tail(rows), eol)

textOf(header, rows, eol, terminated) ==
    header \o linesAfter(rows, eol) \o (IF terminated THEN eol ELSE <<>>)

Texts ==
    {textOf(header, rows, eol, terminated) :
        header \in Headers,
        rows \in UNION {[1..n -> Rows] : n \in 0..MaxLines},
        eol \in LineEnds,
        terminated \in BOOLEAN}

Init ==
    /\ pc = "getVersion"
    /\ text \in Texts
    /\ files \in {<<>>, PartialBuild, EarlierBuild(EarlierDate), EarlierBuild(RemoteDate)}
    /\ dirs = IF DOMAIN files = {} THEN {} ELSE BuildDirs
    /\ outputs = <<>>
    /\ version = <<>>
    /\ lines = <<>> /\ index = 0 /\ mapped = <<>> /\ entities = <<>>
    /\ error = "" /\ errLine = 0
    /\ bucket = 0 /\ targets = <<>> /\ counts = <<>>
    /\ written = <<>>
    /\ TokIdle
    /\ CanIdle

\* boot's catch: the error is logged and the process exits
Fail(message, lineNumber) ==
    /\ pc' = "failed"
    /\ error' = message
    /\ errLine' = lineNumber

\* metadata.date === version.date, for the metadata file that exists
upToDateIfPresent(fs, v) == metadataPath \in DOMAIN fs

upToDate(fs, v) == metadataPath \in DOMAIN fs /\ fs[metadataPath].date = v.date

\* getVersion, from the answer of Google.getLatestVersion to the request of
\* downloadFile
GetVersion ==
    /\ pc = "getVersion"
    /\ \/ /\ \E message \in {"Received status code", "Failed to locate download link",
                            "Failed to locate date in download link"} :
                 Fail(message, 0)
          /\ UNCHANGED <<outputs, version>>
       \/ \E uri \in RemoteUris :
            LET v == [date |-> RemoteDate, uri |-> uri]
                dated == Append(outputs, [name |-> "date", value |-> v.date])
            IN  /\ version' = v
                /\ IF ~uriIsCsv(uri)
                   THEN /\ Fail("Target link is invalid.", 0)
                        /\ outputs' = dated
                   ELSE IF upToDate(files, v)
                   THEN /\ outputs' = Append(dated, [name |-> "new_changes", value |-> "false"])
                        /\ pc' = "done"
                        /\ UNCHANGED <<error, errLine>>
                   ELSE /\ outputs' = Append(dated, [name |-> "new_changes", value |-> "true"])
                        /\ pc' = "downloadFile"
                        /\ UNCHANGED <<error, errLine>>
    /\ UNCHANGED <<text, files, dirs, lines, index, mapped, entities, bucket, targets,
                   counts, written, tokVars, canVars>>

\* downloadFile and parseFile, from the answer of Google.getTargetFile to
\* the lines getLocationEntities is about to map
DownloadFile ==
    /\ pc = "downloadFile"
    /\ \/ /\ \E message \in {"Received status code",
                            "Failed to locate target file in zip archive."} :
                 Fail(message, 0)
          /\ UNCHANGED <<lines, index, mapped>>
       \/ /\ lines' = split(removeHeader(text))
          /\ index' = 0
          /\ mapped' = <<>>
          /\ pc' = "map"
          /\ UNCHANGED <<error, errLine>>
    /\ UNCHANGED <<text, files, dirs, outputs, version, entities, bucket, targets,
                   counts, written, tokVars, canVars>>

\* one call of the callback of lines.map
MapLine ==
    /\ pc = "map"
    /\ index < Len(lines)
    /\ LET line == lines[index + 1]
           values == parseLine(line)
       IN  IF tooFewValues(values)
           THEN /\ Fail("Parsing failed (not enough values)", index + 2)
                /\ UNCHANGED <<index, mapped>>
           ELSE /\ mapped' = Append(mapped, mapValues(values))
                /\ index' = index + 1
                /\ UNCHANGED <<pc, error, errLine>>
    /\ UNCHANGED <<text, files, dirs, outputs, version, lines, entities, bucket, targets,
                   counts, written, tokVars, canVars>>

\* getLocationEntities returns the filtered array to parseFile
ReturnEntities ==
    /\ pc = "map"
    /\ index = Len(lines)
    /\ entities' = filterDefined(mapped)
    /\ pc' = "parsed"
    /\ UNCHANGED <<text, files, dirs, outputs, version, lines, index, mapped, error, errLine,
                   bucket, targets, counts, written, tokVars, canVars>>

\* the rest of parseFile and the start of writeFiles: the directories
ParseFile ==
    /\ pc = "parsed"
    /\ IF Len(entities) = 0
       THEN /\ Fail("No entities available in the file.", 0)
            /\ UNCHANGED <<dirs, bucket, counts>>
       ELSE /\ dirs' = dirs \cup BuildDirs
            /\ bucket' = 1
            /\ counts' = <<>>
            /\ pc' = "writeJson"
            /\ UNCHANGED <<error, errLine>>
    /\ UNCHANGED <<text, files, outputs, version, lines, index, mapped, entities, targets,
                   written, tokVars, canVars>>

\* fs.writeFileSync and fs.promises.writeFile may throw (a full disk, a
\* directory removed meanwhile)
WriteError == "write failed"

\* the loop of writeFiles ends after this turn
loopEndsEarly(b) == b = 1

loopEnds(b) == b = Len(saveFiles)

\* one turn of the loop of writeFiles up to the json file
WriteJson ==
    /\ pc = "writeJson"
    /\ LET type == saveFiles[bucket].type
           fileName == saveFiles[bucket].fileName
           ts == targetsOf(entities, type)
       IN  /\ targets' = ts
           /\ entities' = afterDelete(entities, type)
           /\ \/ /\ files' = WriteFile(files, savePath("json", fileName), jsonData(ts))
                 /\ written' = Append(written, savePath("json", fileName))
                 /\ pc' = "writeCsv"
                 /\ UNCHANGED <<error, errLine>>
              \/ /\ Fail(WriteError, 0)
                 /\ UNCHANGED <<files, written>>
    /\ UNCHANGED <<text, dirs, outputs, version, lines, index, mapped, bucket, counts,
                   tokVars, canVars>>

\* the rest of that turn: the csv file and the maps
WriteCsv ==
    /\ pc = "writeCsv"
    /\ LET fileName == saveFiles[bucket].fileName
       IN  \/ /\ files' = WriteFile(files, savePath("csv", fileName), csvData(targets))
              /\ written' = Append(written, savePath("csv", fileName))
              /\ counts' = Append(counts, [fileName |-> fileName, count |-> Len(targets)])
              /\ IF loopEnds(bucket)
                 THEN pc' = "writeMetadata" /\ UNCHANGED bucket
                 ELSE pc' = "writeJson" /\ bucket' = bucket + 1
              /\ UNCHANGED <<error, errLine>>
           \/ /\ Fail(WriteError, 0)
              /\ UNCHANGED <<files, written, counts, bucket>>
    /\ UNCHANGED <<text, dirs, outputs, version, lines, index, mapped, entities, targets,
                   tokVars, canVars>>

\* the metadata file
WriteMetadata ==
    /\ pc = "writeMetadata"
    /\ \/ /\ files' = WriteFile(files, metadataPath, metadataOf(version, counts))
          /\ written' = Append(written, metadataPath)
          /\ pc' = "done"
          /\ UNCHANGED <<error, errLine>>
       \/ /\ Fail(WriteError, 0)
          /\ UNCHANGED <<files, written>>
    /\ UNCHANGED <<text, dirs, outputs, version, lines, index, mapped, entities, targets,
                   bucket, counts, tokVars, canVars>>

Next ==
    \/ GetVersion
    \/ DownloadFile
    \/ MapLine
    \/ ReturnEntities
    \/ ParseFile
    \/ WriteJson
    \/ WriteCsv
    \/ WriteMetadata

vars == <<tokVars, canVars, appVars>>

Spec == Init /\ [][Next]_vars

TokSpec == TokInit /\ [][TokNext]_vars

CanSpec == CanInit /\ [][CanNext]_vars

(***************************************************************************)
(* Properties of the tokenizer.                                            *)
(***************************************************************************)
HasChar(s, c) == \E k \in 1..Len(s) : s[k] = c

\* C1: a line built by wrapping each of N >= 1 fields in double quotes and
\* joining them with commas (no field holding a double quote immediately
\* followed by a comma) is tokenized by parseLine back into exactly those
\* fields, in the same order.
TokRoundTrip ==
    (tokPc = "parsed" /\ Len(tokFields) >= 1) => tokValues = tokFields

\* C1 witness: a two-field line has been parsed whose fields hold a comma, a
\* space and a double quote between them.
TokRoundTripWitness ==
    /\ tokPc = "parsed"
    /\ Len(tokFields) >= 2
    /\ \E k \in 1..Len(tokFields) : HasChar(tokFields[k], COMMA)
    /\ \E k \in 1..Len(tokFields) : HasChar(tokFields[k], QUOTE)
    /\ \E k \in 1..Len(tokFields) : HasChar(tokFields[k], SPACE)
    /\ tokValues = tokFields

\* position c of line was read with inQuotes false
ReadUnquoted(line, c) == ~loopState(line, c).inQuotes

\* C8: characters on opposite sides of a comma read in unquoted mode never
\* end up in the same output field, and a space read in unquoted mode is
\* never part of any output field.
TokCommaSeparates ==
    tokPc = "parsed" =>
        LET ps == parseLinePositions(tokLine) IN
        \A k \in 1..Len(ps) :
            /\ \A m, n \in 1..Len(ps[k]) :
                   \A c \in (ps[k][m] + 1)..(ps[k][n] - 1) :
                       ~(tokLine[c + 1] = COMMA /\ ReadUnquoted(tokLine, c))
            /\ \A m \in 1..Len(ps[k]) :
                   ~(tokLine[ps[k][m] + 1] = SPACE /\ ReadUnquoted(tokLine, ps[k][m]))

(***************************************************************************)
(* Properties of the decomposer.                                           *)
(***************************************************************************)
\* the comma-delimited segments of s
RECURSIVE CommaSegments(_)
CommaSegments(s) ==
    IF ~HasChar(s, COMMA) THEN <<s>>
    ELSE LET k == CHOOSE k \in 1..Len(s) : s[k] = COMMA /\ \A j \in 1..(k - 1) : s[j] # COMMA
         IN  <<SubSeq(s, 1, k - 1)>> \o CommaSegments(SubSeq(s, k + 1, Len(s)))

\* canonical after the "name," prefix
RestOf(name, canonical) == SubSeq(canonical, Len(name) + 2, Len(canonical))

\* C5: when canonical differs from name and does not begin with "name,", the
\* result is {region: second segment, country: third segment} if canonical
\* holds exactly two commas and none otherwise; when canonical equals name
\* the result is {country: name} with no region, never none.
CanMismatchOrEqual ==
    canPc = "returned" =>
        /\ (canCanonical # canName /\ ~startsWith(canCanonical, canName \o <<COMMA>>)) =>
               IF Len(CommaSegments(canCanonical)) = 3
               THEN canResult = [region |-> CommaSegments(canCanonical)[2],
                                 country |-> CommaSegments(canCanonical)[3]]
               ELSE canResult = undefined
        /\ canCanonical = canName =>
               /\ canResult = [country |-> canName]
               /\ canResult # undefined
               /\ "region" \notin DOMAIN canResult

\* C5 witness: a three-segment canonical that does not begin with "name,"
\* has been decomposed through the re-derived name.
CanMismatchWitness ==
    /\ canPc = "returned"
    /\ canCanonical # canName
    /\ ~startsWith(canCanonical, canName \o <<COMMA>>)
    /\ canCanonical = <<"a", COMMA, "b", COMMA, "a", "b">>
    /\ canResult = [region |-> <<"b">>, country |-> <<"a", "b">>]

\* C6: when canonical begins with "name,", the country is the part of the
\* rest after its last comma (all of the rest when it holds none); when the
\* rest holds a comma the region is all of the rest before the last comma,
\* and region + "," + country is the rest.
CanPrefixSplit ==
    (/\ canPc = "returned"
     /\ startsWith(canCanonical, canName \o <<COMMA>>)) =>
        LET rest == RestOf(canName, canCanonical) IN
        /\ canResult # undefined
        /\ ~HasChar(canResult.country, COMMA)
        /\ ~HasChar(rest, COMMA) => canResult.country = rest
        /\ HasChar(rest, COMMA) =>
               /\ DOMAIN canResult = {"region", "country"}
               /\ canResult.region \o <<COMMA>> \o canResult.country = rest

\* C6 witness: "a,b,a,b" under name "a" has been decomposed into region
\* "b,a" and country "b".
CanPrefixSplitWitness ==
    /\ canPc = "returned"
    /\ canName = <<"a">>
    /\ canCanonical = <<"a", COMMA, "b", COMMA, "a", COMMA, "b">>
    /\ canResult = [region |-> <<"b", COMMA, "a">>, country |-> <<"b">>]

\* C7: when the rest after the "name," prefix holds no comma, the country is
\* the whole rest and the region is absent, as in the name = canonical case.
CanNoCommaRegionAbsent ==
    (/\ canPc = "returned"
     /\ startsWith(canCanonical, canName \o <<COMMA>>)
     /\ ~HasChar(RestOf(canName, canCanonical), COMMA)) =>
        /\ canResult # undefined
        /\ canResult.country = RestOf(canName, canCanonical)
        /\ "region" \notin DOMAIN canResult

(***************************************************************************)
(* Properties of the batch parser and of the run.                          *)
(***************************************************************************)
\* the lines of t as a reader numbers them: line n ends at the n-th line
\* feed (a carriage return before it is part of the line end)
RECURSIVE PhysicalLines(_)
PhysicalLines(t) ==
    IF ~HasChar(t, LF) THEN <<t>>
    ELSE LET k == indexOf(t, LF) + 1
             body == SubSeq(t, 1, k - 1)
         IN  <<IF Len(body) > 0 /\ body[Len(body)] = CR
               THEN SubSeq(body, 1, Len(body) - 1) ELSE body>>
             \o PhysicalLines(SubSeq(t, k + 1, Len(t)))

\* the numbers of the lines after the header that are not blank, in order
DataLineNumbers(t) ==
    LET ls == PhysicalLines(t)
        RECURSIVE from(_)
        from(n) == IF n > Len(ls) THEN <<>>
                   ELSE IF Len(ls[n]) > 0 THEN <<n>> \o from(n + 1) ELSE from(n + 1)
    IN  from(2)

\* the lines after the header that are not blank, in order
DataLines(t) ==
    LET ns == DataLineNumbers(t) IN [k \in 1..Len(ns) |-> PhysicalLines(t)[ns[k]]]

\* getLocationEntities has returned an entity list to parseFile
Returned ==
    \/ pc \in {"parsed", "writeJson", "writeCsv", "writeMetadata"}
    \/ pc = "done" /\ Len(written) > 0
    \/ pc = "failed" /\ error = "No entities available in the file."

\* some data line tokenizes to fewer than 6 fields
HasShortLine == \E k \in 1..Len(DataLines(text)) : Len(parseLine(DataLines(text)[k])) < 6

\* a field that is a valid integer: one or more decimal digits
IsInteger(f) == Len(f) > 0 /\ \A k \in 1..Len(f) : isDigit(f[k])

\* some data line has at least 6 fields and an id that is not a valid integer
HasBadId ==
    \E k \in 1..Len(DataLines(text)) :
        LET values == parseLine(DataLines(text)[k]) IN
        Len(values) >= 6 /\ ~IsInteger(values[1])

\* C2: a data line that tokenizes to fewer than 6 fields aborts the whole
\* batch (no entity list is returned), and the number the error names is that
\* line's own line number in the input text, the header being line 1, also
\* when blank lines come before it.
ShortLineNamesOwnNumber ==
    /\ HasShortLine => ~Returned
    /\ (/\ pc = "failed"
        /\ error = "Parsing failed (not enough values)"
        /\ HasShortLine) =>
           errLine = DataLineNumbers(text)[index + 1]

\* C3: a row with at least 6 fields whose id is not a valid integer aborts
\* the whole batch: no entity list is returned, and no entity has an id that
\* is not an integer.
BadIdAborts ==
    /\ HasBadId => ~Returned
    /\ \A k \in 1..Len(mapped) : mapped[k] # undefined => ~mapped[k].id.isNaN

ClaimedTypes == {City, Country, County, PostalCode, Region, State}

\* C4: every entity getLocationEntities returns has a type among City,
\* Country, County, Postal Code, Region and State, and a row whose type field
\* is anything else produces no entity.
OnlyConsideredTypes ==
    /\ (pc \in {"map", "parsed"} \/ (pc = "failed" /\ bucket = 0)) =>
           \A k \in 1..Len(mapped) :
               parseLine(lines[k])[6] \notin ClaimedTypes => mapped[k] = undefined
    /\ pc = "parsed" => \A k \in 1..Len(entities) : entities[k].type \in ClaimedTypes

\* C4 witness: a batch holding a Territory row and a retained row has been
\* returned.
OnlyConsideredTypesWitness ==
    /\ pc = "parsed"
    /\ \E k \in 1..Len(lines) : parseLine(lines[k])[6] = Territory
    /\ Len(entities) >= 1

\* what the callback makes of one line
PerLine(line) == mapValues(parseLine(line))

\* the per-line results of the lines that are not skipped, in line order
RECURSIVE Kept(_)
Kept(ls) ==
    IF Len(ls) = 0 THEN <<>>
    ELSE (IF PerLine(ls[1]) = undefined THEN <<>> ELSE <<PerLine(ls[1])>>) \o Kept(Tail(ls))

\* ls without its k-th line
Without(ls, k) == SubSeq(ls, 1, k - 1) \o SubSeq(ls, k + 1, Len(ls))

\* C9: the entities a completed batch returns are the per-line results of
\* the non-skipped lines, in input line order; leaving a skipped line out of
\* the input changes nothing, and equal rows each yield their own entity.
OrderPreserved ==
    pc = "parsed" =>
        /\ entities = Kept(DataLines(text))
        /\ \A k \in 1..Len(lines) :
               PerLine(lines[k]) = undefined => entities = Kept(Without(lines, k))
        /\ Len(entities) = Cardinality({k \in 1..Len(lines) : PerLine(lines[k]) # undefined})

\* C9 witness: two equal rows around a skipped row have been returned as two
\* equal entities.
OrderPreservedWitness ==
    /\ pc = "parsed"
    /\ Len(lines) = 3
    /\ lines[1] = lines[3]
    /\ mapped[2] = undefined
    /\ Len(entities) = 2
    /\ entities[1] = entities[2]

\* C10: when the batch holds a line with fewer than 6 fields or a bad integer
\* id, or no entity is left after filtering, no data file and no metadata file
\* is written; writes begin only after the whole batch has been parsed with
\* at least one entity.
NoPartialOutput ==
    /\ (HasShortLine \/ HasBadId \/ error = "No entities available in the file.") =>
           Len(written) = 0
    /\ Len(written) > 0 => (index = Len(lines) /\ Len(entities) >= 1)

(***************************************************************************)
(* Properties of writeFiles and getVersion.                                *)
(***************************************************************************)
\* path p has been written by this run
Wrote(p) == \E i \in 1..Len(written) : written[i] = p

\* the entities getLocationEntities returned, as they were parsed
Parsed == SelectSeq(mapped, LAMBDA e : e # undefined)

\* entity e without its type attribute
StripType(e) == [k \in DOMAIN e \ {"type"} |-> e[k]]

\* the parsed entities of type t, in parsed order, without their type
BucketEntities(t) ==
    LET es == SelectSeq(Parsed, LAMBDA e : e.type = t)
    IN  [k \in 1..Len(es) |-> StripType(es[k])]

ClaimedBuckets ==
    {[type |-> City, json |-> "builds/json/cities.json", csv |-> "builds/csv/cities.csv"],
     [type |-> Country, json |-> "builds/json/countries.json",
      csv |-> "builds/csv/countries.csv"],
     [type |-> County, json |-> "builds/json/counties.json",
      csv |-> "builds/csv/counties.csv"],
     [type |-> PostalCode, json |-> "builds/json/postal_codes.json",
      csv |-> "builds/csv/postal_codes.csv"],
     [type |-> Region, json |-> "builds/json/regions.json", csv |-> "builds/csv/regions.csv"],
     [type |-> State, json |-> "builds/json/states.json", csv |-> "builds/csv/states.csv"]}

\* the sum of f over the set S
RECURSIVE SumOver(_, _)
SumOver(S, f) ==
    IF S = {} THEN 0
    ELSE LET x == CHOOSE x \in S : TRUE IN f[x] + SumOver(S \ {x}, f)

\* C11: each bucket's JSON file and CSV file hold the parsed entities of the
\* bucket's type and no others, in parsed order and without a type attribute;
\* once all buckets are written every parsed entity is in exactly one.
BucketGrouping ==
    /\ \A b \in ClaimedBuckets :
           LET es == BucketEntities(b.type) IN
           /\ Wrote(b.json) =>
                  /\ files[b.json] = es
                  /\ \A k \in 1..Len(files[b.json]) : "type" \notin DOMAIN files[b.json][k]
           /\ Wrote(b.csv) =>
                  /\ Len(files[b.csv].rows) = Len(es)
                  /\ \A k \in 1..Len(files[b.csv].rows) :
                         /\ Len(files[b.csv].rows[k]) = 6
                         /\ files[b.csv].rows[k][2] = es[k].name
                         /\ files[b.csv].rows[k][3] = es[k].canonical
                         /\ files[b.csv].rows[k][5] = es[k].country
    /\ (\A b \in ClaimedBuckets : Wrote(b.json) /\ Wrote(b.csv)) =>
           /\ SumOver(ClaimedBuckets, [b \in ClaimedBuckets |-> Len(files[b.json])])
                  = Len(Parsed)
           /\ SumOver(ClaimedBuckets, [b \in ClaimedBuckets |-> Len(files[b.csv].rows)])
                  = Len(Parsed)

\* C11 witness: a run has written two cities and a state into their buckets
\* and nothing into the countries bucket.
BucketGroupingWitness ==
    /\ pc = "done"
    /\ Wrote("builds/csv/states.csv")
    /\ Len(files["builds/json/cities.json"]) = 2
    /\ Len(files["builds/csv/cities.csv"].rows) = 2
    /\ Len(files["builds/json/states.json"]) = 1
    /\ Len(files["builds/json/countries.json"]) = 0

\* C12: the first line of the text (up to and including the first line
\* terminator, or the whole text when it holds none) is discarded and never
\* tokenized; the lines the callback is given are the lines after it, a run of
\* line terminators making no extra line (the one empty piece split leaves
\* when nothing follows the header is no line of the text).
HeaderDiscarded ==
    pc = "map" =>
        lines = IF Len(DataLines(text)) = 0 THEN <<<<>>>> ELSE DataLines(text)

\* the values new_changes has been set to, in order
NewChanges ==
    LET sets == SelectSeq(outputs, LAMBDA o : o.name = "new_changes")
    IN  [k \in 1..Len(sets) |-> sets[k].value]

\* getVersion has obtained a version whose link is a csv link
ValidVersion == Len(outputs) > 0 /\ version.uri = "geotargets-2024-01-02.csv.zip"

\* builds/metadata.json exists and has the remote version's date
MetadataIsCurrent ==
    "builds/metadata.json" \in DOMAIN files
        /\ files["builds/metadata.json"].date = version.date

DataPaths == {b.json : b \in ClaimedBuckets} \cup {b.csv : b \in ClaimedBuckets}

\* the sum of the counts metadata m records
CountsSum(m) == SumOver(1..Len(m.counts), [k \in 1..Len(m.counts) |-> m.counts[k].count])

\* C14: builds/metadata.json is written at most once in a run, as the run's
\* last write, after the JSON and CSV files of all six buckets were written
\* in that run, with the run's date and with counts that sum to the number
\* of parsed entities; a run that has not written it leaves the metadata file
\* as it found it; so whenever a metadata file exists, after a run that failed
\* part-way through writing too, all twelve data files exist.
MetadataLast ==
    /\ Wrote("builds/metadata.json") =>
           /\ pc = "done"
           /\ Len(written) = 13
           /\ written[13] = "builds/metadata.json"
           /\ \A p \in DataPaths : \E i \in 1..12 : written[i] = p
           /\ files["builds/metadata.json"].date = version.date
           /\ CountsSum(files["builds/metadata.json"]) = Len(Parsed)
    /\ \A i \in 1..Len(written) :
           written[i] = "builds/metadata.json" =>
               \A p \in DataPaths : \E j \in 1..(i - 1) : written[j] = p
    /\ ("builds/metadata.json" \in DOMAIN files /\ ~Wrote("builds/metadata.json")) =>
           files["builds/metadata.json"]
               = EarlierBuild(files["builds/metadata.json"].date)["builds/metadata.json"]
    /\ "builds/metadata.json" \in DOMAIN files => DataPaths \subseteq DOMAIN files

\* C14 witness: a run of three parsed entities has written the twelve data
\* files and then the metadata file.
MetadataLastWitness ==
    /\ pc = "done"
    /\ Len(written) = 13
    /\ written[13] = "builds/metadata.json"
    /\ Len(Parsed) = 3
    /\ CountsSum(files["builds/metadata.json"]) = 3

====
